---- MODULE Spec2Model ----
(***************************************************************************)
(* Model of torch_spsr/bases/bezier_tensor.py (BezierTensorBasis) and of   *)
(* dataset/base.py (RandomSafeDataset).                                    *)
(*                                                                         *)
(* Numbers.  Coordinates passed to evaluate_single / evaluate are held in  *)
(* quarter units (x = q/4), relative positions of the integral kernels in  *)
(* half units (rel_pos = h/2).  Every value computed from them is an exact *)
(* rational, held as a record [num, den]; all of them are exactly          *)
(* representable in float32 at the sizes used here.                        *)
(***************************************************************************)
EXTENDS Integers, Sequences, FiniteSets, TLC

VARIABLES
    variant,    \* which content the pickled resource had when it was loaded
    tables,     \* the 8 class-level tables set by _initialize_constants
    pc,         \* position of the caller of the basis: "ready" or "returned"
    call,       \* the last call of the basis: arguments, outcome, frame effects
    ds,         \* RandomSafeDataset: _is_val, skip_on_error, len(self), _get_item outcomes
    readCount,  \* RandomSafeDataset._read_count (manager dict shared by the workers)
    workers,    \* per worker process: position inside get_rng and its locals
    derived,    \* every tuple handed to deterministic_hash so far, with multiplicity
    item        \* the __getitem__ call chain: position, current data_id, last substitution

vars == <<variant, tables, pc, call, ds, readCount, workers, derived, item>>
basisVars == <<variant, tables, pc, call>>
dataVars == <<ds, readCount, workers, derived, item>>

---------------------------------------------------------------------------
(* Bounds *)

MaxK == 3           \* rel_pos per axis ranges over the multiples of 1.5 in -1.5*MaxK .. 1.5*MaxK
MaxX == 8           \* evaluate_single is called on the quarter grid -MaxX/4 .. MaxX/4
MaxStride == 3      \* strides range over 1..MaxStride
MaxLen == 3         \* len(self) of the dataset ranges over 1..MaxLen
MaxReads == 2       \* get_rng is not started for an index whose counter reached MaxReads
NumWorkers == 2     \* worker processes sharing the counter map

---------------------------------------------------------------------------
(* Arithmetic helpers *)

Abs(n) == IF n < 0 THEN -n ELSE n

Min2(a, b) == IF a < b THEN a ELSE b

Max2(a, b) == IF a > b THEN a ELSE b

RECURSIVE Pow2(_)
Pow2(n) == IF n <= 0 THEN 1 ELSE 2 * Pow2(n - 1)

\* int(math.log2(m)) for an integer m >= 1: the truncated base-2 logarithm
RECURSIVE IntLog2(_)
IntLog2(m) == IF m <= 1 THEN 0 ELSE 1 + IntLog2(m \div 2)

IsPow2(m) == m >= 1 /\ Pow2(IntLog2(m)) = m

\* torch.round of h/2 followed by .long(): round half to even
RoundHalf(h) ==
    IF h % 2 = 0 THEN h \div 2
    ELSE LET f == (h - 1) \div 2 IN IF f % 2 = 0 THEN f ELSE f + 1

\* Tensor.clamp_(min=lo, max=hi) on one element
Clamp(v, lo, hi) == IF v < lo THEN lo ELSE IF v > hi THEN hi ELSE v

Axes == 1..3

---------------------------------------------------------------------------
(* Python sequences and the loaded resource *)

\* list[i] and tensor[i] accept -n <= i < n and raise IndexError otherwise
PyInRange(n, i) == -n <= i /\ i < n

\* the 0-based position list[i] reads: a negative i wraps around to n + i
PyPos(n, i) == IF i < 0 THEN n + i ELSE i

PyGet(list, i) == list[PyPos(Len(list), i) + 1]

TableNames ==
    <<"PARTIAL_INTEGRAL", "DERIVATIVE_PARTIAL_INTEGRAL",
      "INV_PARTIAL_INTEGRAL", "INV_DERIVATIVE_PARTIAL_INTEGRAL",
      "SHIFTED_SELF_INTEGRAL", "SHIFTED_DERIVATIVE_INTEGRAL",
      "SHIFTED_SELF_DERIV_INTEGRAL", "INV_SHIFTED_SELF_DERIV_INTEGRAL">>

\* The resource data/bezier_integrals.pkl is data, not code: the model draws
\* its content from a family.  Rows of a level have the length the index
\* formulas of the two kernels span over the common support (3*mult + 2 for
\* the shifted tables, 3*mult for the partial ones, mult + 2 for the inverse
\* ones), variant v padding every row by v - 1 entries; the entries are small
\* integers that differ between tables, levels and positions.
TableVariants == {1, 2}

IsInverse(k) == k \in {3, 4, 8}

IsShifted(k) == k \in {5, 6, 7}

NumRows(k) == IF IsInverse(k) THEN 2 ELSE 3

RowLen(k, level, v) ==
    (v - 1) + (IF IsShifted(k) THEN 3 * Pow2(level) + 2
               ELSE IF IsInverse(k) THEN Pow2(level + 1) + 2
               ELSE 3 * Pow2(level))

Entry(k, level, i, v) == ((3 * i + 5 * level + 7 * k + 2 * v) % 5) - 2

LoadedTables(v) ==
    [name \in {TableNames[k] : k \in 1..8} |->
        LET k == CHOOSE j \in 1..8 : TableNames[j] = name
        IN [row \in 1..NumRows(k) |->
               [i \in 1..RowLen(k, row - 1, v) |-> Entry(k, row - 1, i - 1, v)]]]

---------------------------------------------------------------------------
(* Basis Evaluator: evaluate_single, evaluate_derivative_single, evaluate,  *)
(* evaluate_derivative.  x is in quarter units.                             *)

M1(x) == x >= -6 /\ x < -2

\* M2 with its right end closed
M2Closed(x) == x >= -2 /\ x <= 2

M2(x) == x >= -2 /\ x < 2

M3(x) == x >= 2 /\ x < 6

\* mask * value of the boolean-select arithmetic
Sel(m, b) == IF m THEN b ELSE 0

\* evaluate_single, in sixteenths
EvaluateSingle(x) ==
    LET b1 == (x + 6) * (x + 6)
        b2 == 24 - 2 * x * x
        b3 == (x - 6) * (x - 6)
    IN Sel(M1(x), b1) + Sel(M2(x), b2) + Sel(M3(x), b3)

\* how many of the three masks select x
PiecesSelected(x) ==
    Sel(M1(x), 1) + Sel(M2(x), 1) + Sel(M3(x), 1)

\* evaluate_derivative_single, in quarters
EvaluateDerivativeSingle(x) ==
    LET b1 == 2 * x + 12
        b2 == -4 * x
        b3 == 2 * x - 12
    IN Sel(M1(x), b1) + Sel(M2(x), b2) + Sel(M3(x), b3)

\* evaluate: bx * by * bz, in 4096ths
EvaluateXyz(xyz) ==
    [num |-> EvaluateSingle(xyz[1]) * EvaluateSingle(xyz[2]) * EvaluateSingle(xyz[3]),
     den |-> 4096]

\* evaluate_derivative: [dx*by*bz, bx*dy*bz, bx*by*dz] with d = derivative / stride
EvaluateDerivativeXyz(xyz, stride) ==
    LET b == [a \in Axes |-> EvaluateSingle(xyz[a])]
        d == [a \in Axes |-> EvaluateDerivativeSingle(xyz[a])]
    IN [num |-> <<d[1] * b[2] * b[3], b[1] * d[2] * b[3], b[1] * b[2] * d[3]>>,
        den |-> 4 * stride * 256]

---------------------------------------------------------------------------
(* Cross-Scale Integrator.  rel_pos is a batch (a sequence) of queries,     *)
(* each a triple of half units.                                             *)

\* an operation that hands back the storage of its operand
SameStorage(operand) == operand

\* Where the elements of a tensor live.  <<"frame", 0>> is memory allocated
\* by the running call; the objects that exist before the call are the
\* caller's <<"rel_pos", 0>> and the rows <<table name, level>> of the tables.
\* rel_pos + c, .round(), .long() of a float tensor, torch.tensor(list) and
\* indexing by an index tensor all return a new tensor, whatever they read.
OutOfPlace(operand) == <<"frame", 0>>

\* the assert with a strict comparison
StridePreconditionStrict(source_stride, target_stride) == source_stride < target_stride

\* the assert of integrate_deriv_deriv_product
StridePrecondition(source_stride, target_stride) == source_stride <= target_stride

\* the validity test without its upper bound
InvalidRangeLow(idx, n) == ~(idx >= 0)

\* ~logical_and(abs_val >= 0, abs_val < n), one element
InvalidRangeVal(idx, n) == ~(idx >= 0 /\ idx < n)

\* tensor[mask] = 0.0, one element
MaskedZero(value, masked) == IF masked THEN 0 ELSE value

\* the three-term product of both kernels, one query, before any common factor
GradProduct(w, iv, cv) ==
    w[1] * iv[1] * cv[2] * cv[3] + w[2] * cv[1] * iv[2] * cv[3] + w[3] * cv[1] * cv[2] * iv[3]

Ones == <<1, 1, 1>>

\* what a call leaves behind when it raises before it wrote anything
Raised(error, tbl, rel_pos) ==
    [status |-> error, res |-> <<>>, reads |-> {}, level |-> 0, rowLen |-> 0,
     absVal |-> <<>>, relPosAfter |-> rel_pos, tablesAfter |-> tbl]

\* a row of the tables after an in-place masked assignment through an alias
RowZeroed(row, positions) ==
    [i \in 1..Len(row) |-> IF (i - 1) \in positions THEN 0 ELSE row[i]]

\* the tables after the in-place writes of a call whose const_val and
\* integral_val live in constStore and integralStore
TablesAfterWrites(tbl, level, constStore, integralStore, zeroed) ==
    [name \in DOMAIN tbl |->
        IF <<name, level>> \in {constStore, integralStore}
        THEN [r \in 1..Len(tbl[name]) |->
                 IF r = PyPos(Len(tbl[name]), level) + 1
                 THEN RowZeroed(tbl[name][r], zeroed) ELSE tbl[name][r]]
        ELSE tbl[name]]

\* integrate_deriv_deriv_product
IntegrateDerivDerivProduct(tbl, rel_pos, source_stride, target_stride) ==
    IF ~StridePrecondition(source_stride, target_stride)
    THEN Raised("AssertionError", tbl, rel_pos)
    ELSE
    LET mult == target_stride \div source_stride
        abs_val == [q \in DOMAIN rel_pos |->
                       [a \in Axes |-> RoundHalf(rel_pos[q][a] + 3 * mult + 1)]]
        absStore == OutOfPlace(<<"rel_pos", 0>>)
    IN
    IF mult < 1 THEN Raised("ValueError", tbl, rel_pos)        \* math.log2(0)
    ELSE
    LET level == IntLog2(mult)
        ssi == tbl["SHIFTED_SELF_INTEGRAL"]
        sdi == tbl["SHIFTED_DERIVATIVE_INTEGRAL"]
    IN
    IF ~PyInRange(Len(ssi), level) \/ ~PyInRange(Len(sdi), level)
    THEN Raised("IndexError", tbl, rel_pos)
    ELSE
    LET srow == PyGet(ssi, level)
        drow == PyGet(sdi, level)
        n == Len(srow)
        invalid == [q \in DOMAIN rel_pos |->
                       [a \in Axes |-> InvalidRangeVal(abs_val[q][a], n)]]
        clamped == [q \in DOMAIN rel_pos |->
                       [a \in Axes |-> Clamp(abs_val[q][a], 0, n - 1)]]
        constStore == OutOfPlace(<<"SHIFTED_SELF_INTEGRAL", level>>)
        integralStore == OutOfPlace(<<"SHIFTED_DERIVATIVE_INTEGRAL", level>>)
        reads == {<<clamped[q][a], n>> : q \in DOMAIN rel_pos, a \in Axes}
                 \cup {<<clamped[q][a], Len(drow)>> : q \in DOMAIN rel_pos, a \in Axes}
        masked == {e \in (DOMAIN rel_pos) \X Axes : invalid[e[1]][e[2]]}
        relPosAfter == IF absStore = <<"rel_pos", 0>>
                       THEN [q \in DOMAIN rel_pos |-> [a \in Axes |-> 2 * clamped[q][a]]]
                       ELSE rel_pos
        tablesAfter == TablesAfterWrites(tbl, level, constStore, integralStore,
                           {clamped[e[1]][e[2]] : e \in masked})
    IN
    IF \E r \in reads : ~PyInRange(r[2], r[1])
    THEN [Raised("IndexError", tbl, rel_pos) EXCEPT !.reads = reads, !.level = level,
             !.rowLen = n, !.absVal = abs_val, !.relPosAfter = relPosAfter]
    ELSE
    LET const_val == [q \in DOMAIN rel_pos |-> [a \in Axes |->
                         MaskedZero(PyGet(srow, clamped[q][a]) * source_stride, invalid[q][a])]]
        \* integral_val carries the denominator target_stride
        integral_val == [q \in DOMAIN rel_pos |-> [a \in Axes |->
                            MaskedZero(PyGet(drow, clamped[q][a]), invalid[q][a])]]
    IN [status |-> "ok",
        res |-> [q \in DOMAIN rel_pos |->
                    [num |-> GradProduct(Ones, integral_val[q], const_val[q]),
                     den |-> target_stride]],
        reads |-> reads, level |-> level, rowLen |-> n, absVal |-> abs_val,
        relPosAfter |-> relPosAfter, tablesAfter |-> tablesAfter]

\* the branch test with a strict comparison
TakesForwardBranchStrict(target_stride, data_stride) == target_stride > data_stride

\* the branch test of integrate_const_deriv_product
TakesForwardBranch(target_stride, data_stride) == target_stride >= data_stride

\* what the branch "target_stride >= data_stride" sets up for the lookup
ForwardBranch(rel_pos, data_stride, target_stride) ==
    LET mult == target_stride \div data_stride
    IN [branch |-> "forward", mult |-> mult,
        absVal |-> [q \in DOMAIN rel_pos |->
                       [a \in Axes |-> RoundHalf(rel_pos[q][a] + 3 * mult - 1)]],
        level |-> IntLog2(mult),
        dpi |-> "DERIVATIVE_PARTIAL_INTEGRAL", pi |-> "PARTIAL_INTEGRAL",
        dataStride |-> data_stride,
        iMultNum |-> data_stride, iMultDen |-> target_stride]

\* what the else branch sets up for the lookup
InverseBranch(rel_pos, data_stride, target_stride) ==
    LET mult == data_stride \div target_stride
    IN [branch |-> "inverse", mult |-> mult,
        absVal |-> [q \in DOMAIN rel_pos |->
                       [a \in Axes |-> RoundHalf(rel_pos[q][a] * mult + mult + 1)]],
        level |-> IntLog2(mult) - 1,
        dpi |-> "INV_DERIVATIVE_PARTIAL_INTEGRAL", pi |-> "INV_PARTIAL_INTEGRAL",
        dataStride |-> target_stride,
        iMultNum |-> 1, iMultDen |-> 1]

\* lines 139-145: the unclamped lookup and the contraction with data
ConstDerivLookup(tbl, data, rel_pos, b) ==
    LET none == [Raised("ValueError", tbl, rel_pos) EXCEPT !.absVal = b.absVal]
    IN
    IF b.mult < 1 THEN [none EXCEPT !.level = 0]                \* math.log2(0)
    ELSE IF ~PyInRange(Len(tbl[b.dpi]), b.level) \/ ~PyInRange(Len(tbl[b.pi]), b.level)
    THEN [none EXCEPT !.status = "IndexError", !.level = b.level]
    ELSE
    LET dpi == PyGet(tbl[b.dpi], b.level)
        pi == PyGet(tbl[b.pi], b.level)
        reads == {<<b.absVal[q][a], Len(dpi)>> : q \in DOMAIN rel_pos, a \in Axes}
                 \cup {<<b.absVal[q][a], Len(pi)>> : q \in DOMAIN rel_pos, a \in Axes}
    IN
    IF \E r \in reads : ~PyInRange(r[2], r[1])
    THEN [none EXCEPT !.status = "IndexError", !.level = b.level, !.reads = reads,
                      !.rowLen = Len(dpi)]
    ELSE
    LET const_val == [q \in DOMAIN rel_pos |-> [a \in Axes |->
                         PyGet(dpi, b.absVal[q][a]) * b.dataStride]]
        \* integral_val carries the denominator b.iMultDen
        integral_val == [q \in DOMAIN rel_pos |-> [a \in Axes |->
                            PyGet(pi, b.absVal[q][a]) * b.iMultNum]]
    IN [status |-> "ok",
        res |-> [q \in DOMAIN rel_pos |->
                    [num |-> GradProduct(data[q], integral_val[q], const_val[q]),
                     den |-> b.iMultDen]],
        reads |-> reads, level |-> b.level, rowLen |-> Len(dpi), absVal |-> b.absVal,
        relPosAfter |-> rel_pos, tablesAfter |-> tbl]

\* integrate_const_deriv_product
IntegrateConstDerivProduct(tbl, data, rel_pos, data_stride, target_stride) ==
    IF TakesForwardBranch(target_stride, data_stride)
    THEN ConstDerivLookup(tbl, data, rel_pos, ForwardBranch(rel_pos, data_stride, target_stride))
    ELSE ConstDerivLookup(tbl, data, rel_pos, InverseBranch(rel_pos, data_stride, target_stride))

\* the branch integrate_const_deriv_product enters
BranchTaken(data_stride, target_stride) ==
    IF TakesForwardBranch(target_stride, data_stride) THEN "forward" ELSE "inverse"

---------------------------------------------------------------------------
(* Calls of the basis.  The caller is ready to call, or holds what the last *)
(* call returned or raised.                                                 *)

RelGrid == {3 * k : k \in -MaxK..MaxK}

Queries == RelGrid \X RelGrid \X RelGrid

\* a batch is one free query, alone or followed by one of two fixed ones
Companions == {<<0, 0, 0>>, <<-3 * MaxK, 0, 3 * MaxK>>}

Batches == {<<q>> : q \in Queries} \cup {<<q, c>> : q \in Queries, c \in Companions}

Strides == 1..MaxStride

DataVectors == {<<1, 1, 1>>, <<2, -1, 0>>}

XGrid == -MaxX..MaxX

XyzGrid == {x \in XGrid : x % 2 = 0}

NoCall == [op |-> "none"]

CallEvaluateSingle(x) ==
    /\ pc = "ready"
    /\ call' = [op |-> "evaluate_single", x |-> x, res |-> EvaluateSingle(x),
                pieces |-> PiecesSelected(x)]
    /\ pc' = "returned"
    /\ UNCHANGED <<variant, tables, dataVars>>

CallEvaluate(xyz) ==
    /\ pc = "ready"
    /\ call' = [op |-> "evaluate", xyz |-> xyz, res |-> EvaluateXyz(xyz)]
    /\ pc' = "returned"
    /\ UNCHANGED <<variant, tables, dataVars>>

CallEvaluateDerivative(xyz, stride) ==
    /\ pc = "ready"
    /\ call' = [op |-> "evaluate_derivative", xyz |-> xyz, stride |-> stride,
                res |-> EvaluateDerivativeXyz(xyz, stride)]
    /\ pc' = "returned"
    /\ UNCHANGED <<variant, tables, dataVars>>

CallIntegrateGradGrad(rel_pos, source_stride, target_stride) ==
    /\ pc = "ready"
    /\ LET r == IntegrateDerivDerivProduct(tables, rel_pos, source_stride, target_stride)
       IN /\ call' = [op |-> "integrate_deriv_deriv_product", relPos |-> rel_pos,
                      sourceStride |-> source_stride, targetStride |-> target_stride,
                      status |-> r.status, res |-> r.res, reads |-> r.reads,
                      level |-> r.level, rowLen |-> r.rowLen, absVal |-> r.absVal,
                      relPosAfter |-> r.relPosAfter]
          /\ tables' = r.tablesAfter
    /\ pc' = "returned"
    /\ UNCHANGED <<variant, dataVars>>

CallIntegrateConstGrad(data, rel_pos, data_stride, target_stride) ==
    /\ pc = "ready"
    /\ LET r == IntegrateConstDerivProduct(tables, data, rel_pos, data_stride, target_stride)
       IN /\ call' = [op |-> "integrate_const_deriv_product", data |-> data,
                      relPos |-> rel_pos, dataStride |-> data_stride,
                      targetStride |-> target_stride,
                      branch |-> BranchTaken(data_stride, target_stride),
                      status |-> r.status, res |-> r.res, reads |-> r.reads,
                      level |-> r.level, rowLen |-> r.rowLen, absVal |-> r.absVal,
                      relPosAfter |-> r.relPosAfter, dataAfter |-> data]
          /\ tables' = r.tablesAfter
    /\ pc' = "returned"
    /\ UNCHANGED <<variant, dataVars>>

\* initialize_feature_value: pass
CallInitializeFeatureValue(feat) ==
    /\ pc = "ready"
    /\ call' = [op |-> "initialize_feature_value", feat |-> feat, featAfter |-> feat]
    /\ pc' = "returned"
    /\ UNCHANGED <<variant, tables, dataVars>>

\* the return statement hands the result to the caller and the frame is dropped
Return ==
    /\ pc = "returned"
    /\ pc' = "ready"
    /\ call' = NoCall
    /\ UNCHANGED <<variant, tables, dataVars>>

\* a dataset nobody reads
DataIdle ==
    /\ ds = [isVal |-> TRUE, skipOnError |-> FALSE, len |-> 1, outcome |-> <<"ok">>]
    /\ readCount = <<>>
    /\ workers = <<>>
    /\ derived = <<>>
    /\ item = [pc |-> "idle", cur |-> 0, failed |-> -1, subst |-> -1, error |-> "none"]

\* _initialize_constants has run at import
InitBasis ==
    /\ variant \in TableVariants
    /\ tables = LoadedTables(variant)
    /\ pc = "ready"
    /\ call = NoCall
    /\ DataIdle

\* the caller picks the arguments of its next call once it is ready
NextBasis ==
    \/ pc = "ready" /\ \E x \in XGrid : CallEvaluateSingle(x)
    \/ pc = "ready" /\ \E xyz \in XyzGrid \X XyzGrid \X XyzGrid : CallEvaluate(xyz)
    \/ pc = "ready" /\ \E xyz \in XyzGrid \X XyzGrid \X XyzGrid, stride \in Strides :
           CallEvaluateDerivative(xyz, stride)
    \/ pc = "ready" /\ \E rel_pos \in Batches, s \in Strides, t \in Strides :
           CallIntegrateGradGrad(rel_pos, s, t)
    \/ pc = "ready" /\ \E data \in DataVectors, q \in Queries, d \in Strides, t \in Strides :
           CallIntegrateConstGrad(<<data>>, <<q>>, d, t)
    \/ pc = "ready" /\ \E feat \in DataVectors : CallInitializeFeatureValue(feat)
    \/ Return

Spec == InitBasis /\ [][NextBasis]_vars

---------------------------------------------------------------------------
(* RandomSafeDataset.  Indices are 0..len-1.  _get_item is the subclass's:  *)
(* for each index it returns a sample ("ok"), raises ConnectionAbortedError *)
(* ("aborted") or raises another Exception ("error").                       *)

Outcomes == {"ok", "aborted", "error"}

Indices(n) == 0..(n - 1)

Outcome(i) == ds.outcome[i + 1]

Datasets ==
    UNION {{[isVal |-> v, skipOnError |-> k, len |-> n, outcome |-> o] :
               v \in BOOLEAN, k \in BOOLEAN, o \in [1..n -> Outcomes]} : n \in 1..MaxLen}

\* line 49-50: if idx not in self._read_count: self._read_count[idx] = 0
RcInit(rc, idx) ==
    [k \in (DOMAIN rc) \cup {idx} |-> IF k \in DOMAIN rc THEN rc[k] ELSE 0]

\* line 52, the write half of +=: the proxy's __setitem__ with the value read before
RcStore(rc, idx, read) == [rc EXCEPT ![idx] = read + 1]

\* the tuple of line 51 without the fixed seed; count -1 stands for the
\* validation case, RandomState(self._seed), which has neither index nor count
Derive(log, idx, count) == [log EXCEPT ![idx + 1] = Append(@, count)]

\* get_rng run without interruption: the counter map after it and the count it hashed
GetRng(rc, idx) ==
    IF ds.isVal THEN [rc |-> rc, count |-> -1]
    ELSE LET rc1 == RcInit(rc, idx)
         IN [rc |-> RcStore(rc1, idx, rc1[idx]), count |-> rc1[idx]]

\* numpy RandomState.randint(low, high): the integers of [low, high); empty when low >= high,
\* and then randint raises ValueError
Randint(low, high) == low..(high - 1)

---------------------------------------------------------------------------
(* get_rng called by worker processes.  Every access of the manager dict is *)
(* one request to the manager process, so the workers interleave between    *)
(* the lines of get_rng and between the read and the write of "+= 1".       *)

Workers == 1..NumWorkers

WorkerIdle == [pc |-> "idle", idx |-> 0, tmp |-> 0]

At(w, where) == workers[w].pc = where

Goto(w, where) == workers' = [workers EXCEPT ![w].pc = where]

GetRngCall(w, idx) ==
    /\ At(w, "idle")
    /\ idx \in Indices(ds.len)
    /\ Len(derived[idx + 1]) < MaxReads
    /\ workers' = [workers EXCEPT ![w] = [pc |-> "L47", idx |-> idx, tmp |-> 0]]
    /\ UNCHANGED <<basisVars, ds, readCount, derived, item>>

\* line 47-48: a validation dataset seeds with self._seed alone and returns
GetRngIsVal(w) ==
    /\ At(w, "L47")
    /\ IF ds.isVal
       THEN /\ derived' = Derive(derived, workers[w].idx, -1)
            /\ workers' = [workers EXCEPT ![w] = WorkerIdle]
       ELSE /\ Goto(w, "L49")
            /\ UNCHANGED derived
    /\ UNCHANGED <<basisVars, ds, readCount, item>>

\* line 49: idx not in self._read_count
GetRngContains(w) ==
    /\ At(w, "L49")
    /\ Goto(w, IF workers[w].idx \in DOMAIN readCount THEN "L51" ELSE "L50")
    /\ UNCHANGED <<basisVars, ds, readCount, derived, item>>

\* line 50: self._read_count[idx] = 0
GetRngInit(w) ==
    /\ At(w, "L50")
    /\ readCount' = RcInit(readCount, workers[w].idx)
    /\ Goto(w, "L51")
    /\ UNCHANGED <<basisVars, ds, derived, item>>

\* line 51: deterministic_hash((idx, self._read_count[idx], self._seed))
GetRngSeed(w) ==
    /\ At(w, "L51")
    /\ derived' = Derive(derived, workers[w].idx, readCount[workers[w].idx])
    /\ Goto(w, "L52")
    /\ UNCHANGED <<basisVars, ds, readCount, item>>

\* line 52, first half: the read of self._read_count[idx]
GetRngIncrRead(w) ==
    /\ At(w, "L52")
    /\ workers' = [workers EXCEPT ![w].pc = "L52w", ![w].tmp = readCount[workers[w].idx]]
    /\ UNCHANGED <<basisVars, ds, readCount, derived, item>>

\* line 52, second half: the write; line 53: return rng
GetRngIncrWrite(w) ==
    /\ At(w, "L52w")
    /\ readCount' = RcStore(readCount, workers[w].idx, workers[w].tmp)
    /\ workers' = [workers EXCEPT ![w] = WorkerIdle]
    /\ UNCHANGED <<basisVars, ds, derived, item>>

\* a resource loaded and a caller of the basis that does nothing
BasisIdle ==
    /\ variant = 1
    /\ tables = LoadedTables(variant)
    /\ pc = "ready"
    /\ call = NoCall

InitRng ==
    /\ BasisIdle
    /\ ds \in {d \in Datasets : ~d.skipOnError /\ \A i \in 1..d.len : d.outcome[i] = "ok"}
    /\ readCount = <<>>
    /\ workers = [w \in Workers |-> WorkerIdle]
    /\ derived = [i \in 1..ds.len |-> <<>>]
    /\ item = [pc |-> "idle", cur |-> 0, failed |-> -1, subst |-> -1, error |-> "none"]

NextRng ==
    \/ \E w \in Workers, idx \in Indices(MaxLen) : GetRngCall(w, idx)
    \/ \E w \in Workers : GetRngIsVal(w)
    \/ \E w \in Workers : GetRngContains(w)
    \/ \E w \in Workers : GetRngInit(w)
    \/ \E w \in Workers : GetRngSeed(w)
    \/ \E w \in Workers : GetRngIncrRead(w)
    \/ \E w \in Workers : GetRngIncrWrite(w)

SpecRng == InitRng /\ [][NextRng]_vars

---------------------------------------------------------------------------
(* __getitem__ called by one process.  A retry is the recursive call of     *)
(* lines 64, 68 and 73; its data_id is what rng.randint(0, len(self) - 1)   *)
(* returned, any value randint can return.  The depth of the recursion is   *)
(* not kept: a chain of retries is a loop here, where Python ends it with   *)
(* RecursionError once the interpreter's limit is reached.                  *)

ItemIdle == [pc |-> "idle", cur |-> 0, failed |-> -1, subst |-> -1, error |-> "none"]

\* the exception of _get_item is caught by one of the except clauses
Handled(outcome) ==
    \/ outcome = "aborted"
    \/ outcome = "error" /\ ds.skipOnError

\* get_rng of the current data_id can run (the counter is below the bound)
RngAllowed ==
    IF ds.isVal \/ item.cur \notin DOMAIN readCount THEN TRUE
    ELSE readCount[item.cur] < MaxReads

GetItemCall(i) ==
    /\ item.pc \in {"idle", "returned", "raised"}
    /\ i \in Indices(ds.len)
    /\ item' = [ItemIdle EXCEPT !.pc = "running", !.cur = i]
    /\ UNCHANGED <<basisVars, ds, readCount, workers, derived>>

\* get_rng, then _get_item returns the sample
GetItemReturn ==
    /\ item.pc = "running" /\ RngAllowed
    /\ Outcome(item.cur) = "ok"
    /\ readCount' = GetRng(readCount, item.cur).rc
    /\ item' = [item EXCEPT !.pc = "returned"]
    /\ UNCHANGED <<basisVars, ds, workers, derived>>

\* get_rng, then _get_item raises, an except clause catches it and
\* __getitem__ is called again with the index j that randint returned
GetItemRetry(j) ==
    /\ item.pc = "running" /\ RngAllowed
    /\ Handled(Outcome(item.cur))
    /\ j \in Randint(0, ds.len - 1)
    /\ readCount' = GetRng(readCount, item.cur).rc
    /\ item' = [item EXCEPT !.failed = item.cur, !.subst = j, !.cur = j]
    /\ UNCHANGED <<basisVars, ds, workers, derived>>

\* get_rng, then _get_item raises and either no except clause catches it, or
\* randint raises ValueError inside the except clause
GetItemRaise ==
    /\ item.pc = "running" /\ RngAllowed
    /\ Outcome(item.cur) # "ok"
    /\ \/ ~Handled(Outcome(item.cur)) /\ item' = [item EXCEPT !.pc = "raised", !.error = "Exception"]
       \/ /\ Handled(Outcome(item.cur))
          /\ Randint(0, ds.len - 1) = {}
          /\ item' = [item EXCEPT !.pc = "raised", !.failed = item.cur, !.error = "ValueError"]
    /\ readCount' = GetRng(readCount, item.cur).rc
    /\ UNCHANGED <<basisVars, ds, workers, derived>>

InitItem ==
    /\ BasisIdle
    /\ ds \in Datasets
    /\ readCount = <<>>
    /\ workers = <<>>
    /\ derived = <<>>
    /\ item = ItemIdle

NextItem ==
    \/ \E i \in Indices(MaxLen) : GetItemCall(i)
    \/ GetItemReturn
    \/ \E j \in Indices(MaxLen) : GetItemRetry(j)
    \/ GetItemRaise

SpecItem == InitItem /\ [][NextItem]_vars

---------------------------------------------------------------------------
(* Properties of the basis; they are properties of Spec *)

IsGradGrad == call.op = "integrate_deriv_deriv_product"

IsConstGrad == call.op = "integrate_const_deriv_product"

\* a/b = c/d for positive b, d
RatEq(x, y) == x.num * y.den = y.num * x.den

\* C1: integrate_deriv_deriv_product with source_stride > target_stride raises the
\* assertion error and returns nothing; with source_stride <= target_stride the
\* assertion never fails.
C1_StrideOrderAsserted ==
    IsGradGrad =>
        /\ call.sourceStride > call.targetStride =>
               call.status = "AssertionError" /\ call.res = <<>>
        /\ call.sourceStride <= call.targetStride => call.status # "AssertionError"

C1_Witness ==
    /\ IsGradGrad /\ call.sourceStride = 2 /\ call.targetStride = 1
    /\ call.status = "AssertionError"

\* the unclamped index of C2, from the arguments of the call alone
C2Index(q, a) ==
    RoundHalf(call.relPos[q][a] + 3 * (call.targetStride \div call.sourceStride) + 1)

C2Level == IntLog2(call.targetStride \div call.sourceStride)

C2Row(name) == tables[name][C2Level + 1]

C2InRange(q, a) == C2Index(q, a) >= 0 /\ C2Index(q, a) < Len(C2Row("SHIFTED_SELF_INTEGRAL"))

\* the product rule on the table entries at the unclamped indices, no mask
C2Unmasked(q) ==
    LET c == [a \in Axes |->
                 C2Row("SHIFTED_SELF_INTEGRAL")[C2Index(q, a) + 1] * call.sourceStride]
        i == [a \in Axes |-> C2Row("SHIFTED_DERIVATIVE_INTEGRAL")[C2Index(q, a) + 1]]
    IN i[1] * c[2] * c[3] + c[1] * i[2] * c[3] + c[1] * c[2] * i[3]

\* C2: for power-of-two strides with source_stride <= target_stride the call returns,
\* a query with the unclamped index of at least one axis out of range gets exactly 0,
\* and a query of the same batch with all three indices in range gets the unmasked value.
C2_OutOfRangeIsZero ==
    (IsGradGrad /\ IsPow2(call.sourceStride) /\ IsPow2(call.targetStride)
        /\ call.sourceStride <= call.targetStride) =>
        /\ call.status = "ok"
        /\ \A q \in DOMAIN call.relPos :
              IF \E a \in Axes : ~C2InRange(q, a)
              THEN call.res[q].num = 0
              ELSE call.res[q] = [num |-> C2Unmasked(q), den |-> call.targetStride]

C2_Witness ==
    /\ IsGradGrad /\ call.sourceStride = 1 /\ call.targetStride = 2 /\ call.status = "ok"
    /\ Len(call.relPos) = 2
    /\ ~C2InRange(1, 1) /\ C2InRange(1, 2) /\ C2InRange(1, 3)
    /\ C2Row("SHIFTED_DERIVATIVE_INTEGRAL")[Clamp(C2Index(1, 1), 0, call.rowLen - 1) + 1] # 0
    /\ C2Row("SHIFTED_SELF_INTEGRAL")[C2Index(1, 2) + 1] # 0
    /\ C2Row("SHIFTED_SELF_INTEGRAL")[C2Index(1, 3) + 1] # 0
    /\ call.res[1].num = 0
    /\ \A a \in Axes : C2InRange(2, a)
    /\ call.res[2].num # 0

\* C3: every index used to read a table row lies in [0, length of the row) and no
\* lookup fails, in both kernels, for power-of-two strides.
C3_IndicesInRange ==
    (/\ (IsGradGrad /\ call.sourceStride <= call.targetStride) \/ IsConstGrad
     /\ IsPow2(call.targetStride)
     /\ IsPow2(IF IsGradGrad THEN call.sourceStride ELSE call.dataStride)) =>
        /\ call.status # "IndexError"
        /\ \A r \in call.reads : r[1] >= 0 /\ r[1] < r[2]

\* the larger stride is the smaller one times a power of two
Pow2Ratio(a, b) == Max2(a, b) % Min2(a, b) = 0 /\ IsPow2(Max2(a, b) \div Min2(a, b))

\* C4: a cross-scale integral whose stride ratio is not a power of two fails
\* instead of returning a value.
C4_NonPow2RatioFails ==
    /\ (IsGradGrad /\ call.sourceStride <= call.targetStride
            /\ ~Pow2Ratio(call.sourceStride, call.targetStride)) => call.status # "ok"
    /\ (IsConstGrad /\ ~Pow2Ratio(call.dataStride, call.targetStride)) => call.status # "ok"

C5Forward ==
    ConstDerivLookup(tables, call.data, call.relPos,
                     ForwardBranch(call.relPos, call.dataStride, call.targetStride))

C5Inverse ==
    ConstDerivLookup(tables, call.data, call.relPos,
                     InverseBranch(call.relPos, call.dataStride, call.targetStride))

C5Same(x, y) ==
    /\ x.status = y.status
    /\ x.status = "ok" => \A q \in DOMAIN x.res : RatEq(x.res[q], y.res[q])

\* C5 as stated: with target_stride = data_stride the forward and the inverse branch,
\* run on the same arguments, give the same result.
C5_BranchesAgreeAtTie ==
    (IsConstGrad /\ call.targetStride = call.dataStride) => C5Same(C5Forward, C5Inverse)

\* C5 amended: exactly one branch is entered for every stride pair, the forward one
\* iff target_stride >= data_stride; with target_stride = data_stride the call's outcome
\* is the forward branch's, and the inverse branch would compute the same indices
\* (but read row -1 of the inverse tables).
C5_TieTakesForward ==
    IsConstGrad =>
        /\ call.branch = (IF call.targetStride >= call.dataStride THEN "forward" ELSE "inverse")
        /\ call.targetStride = call.dataStride =>
              /\ call.status = C5Forward.status /\ call.res = C5Forward.res
              /\ C5Forward.absVal = C5Inverse.absVal
              /\ C5Inverse.level = -1

C5_Witness ==
    /\ IsConstGrad /\ call.targetStride = 2 /\ call.dataStride = 2
    /\ call.branch = "forward" /\ call.status = "ok"
    /\ C5Inverse.status = "ok" /\ ~C5Same(C5Forward, C5Inverse)

\* C6: no call changes an entry of the tables loaded from the resource, and the
\* caller's rel_pos, data and feat hold after the call what they held before it.
C6_TablesAndArgumentsUnchanged ==
    /\ tables = LoadedTables(variant)
    /\ IsGradGrad => call.relPosAfter = call.relPos
    /\ IsConstGrad => call.relPosAfter = call.relPos /\ call.dataAfter = call.data
    /\ call.op = "initialize_feature_value" => call.featAfter = call.feat

C6_Witness ==
    /\ IsGradGrad /\ call.status = "ok"
    /\ \E q \in DOMAIN call.relPos : \E a \in Axes :
           call.absVal[q][a] < 0 \/ call.absVal[q][a] >= call.rowLen
    /\ tables = LoadedTables(variant)

\* the half-open piecewise definition of the class docstring, in sixteenths
KernelReference(x) ==
    CASE x >= -6 /\ x < -2 -> (x + 6) * (x + 6)
      [] x >= -2 /\ x < 2  -> 24 - 2 * x * x
      [] x >= 2 /\ x < 6   -> (x - 6) * (x - 6)
      [] OTHER             -> 0

\* C7: evaluate_single equals the half-open piecewise reference on the grid, at most
\* one piece is selected, and the value is 0 for |x| >= 1.5.
C7_KernelMatchesReference ==
    call.op = "evaluate_single" =>
        /\ call.res = KernelReference(call.x)
        /\ call.pieces <= 1
        /\ Abs(call.x) >= 6 => call.res = 0

C7_Witness == call.op = "evaluate_single" /\ call.x = 2 /\ call.res = 16

---------------------------------------------------------------------------
(* Properties of the dataset *)

NoDuplicate(seq) == \A m, n \in DOMAIN seq : m # n => seq[m] # seq[n]

\* C8: with skip_on_error, a failure of _get_item for index i is not propagated, and
\* the substituted index is an index of the dataset other than i.  (A property of SpecItem.)
C8_SubstituteIsOtherValidIndex ==
    ds.skipOnError =>
        /\ item.pc # "raised"
        /\ item.failed # -1 => item.subst \in Indices(ds.len) /\ item.subst # item.failed

\* C9: on a non-validation dataset the n-th get_rng of an index hashes read count n-1,
\* so no (index, count) pair is hashed twice, and once no call is running the counter
\* equals the number of calls; a validation dataset hashes the seed alone and keeps
\* no counter.  (A property of SpecRng.)
C9_SeedsNeverRepeat ==
    /\ ~ds.isVal =>
          \A i \in Indices(ds.len) :
              /\ NoDuplicate(derived[i + 1])
              /\ \A n \in DOMAIN derived[i + 1] : derived[i + 1][n] = n - 1
              /\ (\A w \in Workers : workers[w].pc = "idle") =>
                     (IF i \in DOMAIN readCount THEN readCount[i] = Len(derived[i + 1])
                      ELSE derived[i + 1] = <<>>)
    /\ ds.isVal =>
          /\ readCount = <<>>
          /\ \A i \in Indices(ds.len) : \A n \in DOMAIN derived[i + 1] : derived[i + 1][n] = -1

\* C10: a running __getitem__ with skip_on_error eventually returns a sample when
\* _get_item succeeds for some index, because the substitute can be any index: here,
\* whenever _get_item has failed and some index succeeds, randint can return an index
\* for which _get_item succeeds.  (A property of SpecItem.)
C10_SucceedingIndexCanBeDrawn ==
    (/\ item.pc = "running" /\ RngAllowed /\ ds.skipOnError
     /\ Outcome(item.cur) # "ok"
     /\ \E i \in Indices(ds.len) : Outcome(i) = "ok") =>
        \E i \in Indices(ds.len) : Outcome(i) = "ok" /\ ENABLED GetItemRetry(i)

====
